---- MODULE Spec2Model ----
(***************************************************************************)
(* BalanceSheetReconciler (src/app.py) as a state machine.                 *)
(*                                                                         *)
(* Amounts are integers in hundredths (cents): 0.01 is 1, 1,000,000 is     *)
(* 100000000.  Python dicts are functions whose DOMAIN is the set of keys  *)
(* present; Python None and the empty dict are the tagged records None and *)
(* EmptyDict.  A column value is Val(n) when float() parses it to n cents  *)
(* and BadValue when float() raises ValueError on it.  Strings that the    *)
(* code searches (group labels) are sequences of characters.               *)
(***************************************************************************)
EXTENDS Integers, Sequences, FiniteSets, TLC

VARIABLES
    qbo_api,                \* the operations the report source object provides
    reports,                \* what the report source answers to each fetch
    pc,                     \* position inside reconcile(), "idle" between calls
    calls,                  \* reconcile() calls started so far
    trial_balance,          \* locals of reconcile(), lines 501-506
    balance_sheet,
    chart_of_accounts,
    open_ar,
    open_ap,
    bank_accounts,
    adjustments,            \* self.adjustments
    reconciliation_checks,  \* self.reconciliation_checks
    summary_bs,             \* local summary_bs, line 520
    reconciliation_log,     \* local reconciliation_log, line 523
    db_snapshots,           \* committed rows of balance_sheet_snapshots
    db_adjustments,         \* committed rows of adjustments
    outcome,                \* how the last reconcile() call ended
    results                 \* the results returned so far, oldest first

vars == <<qbo_api, reports, pc, calls, trial_balance, balance_sheet,
          chart_of_accounts, open_ar, open_ap, bank_accounts, adjustments,
          reconciliation_checks, summary_bs, reconciliation_log,
          db_snapshots, db_adjustments, outcome, results>>

----------------------------------------------------------------------------
(* Bounds of the model *)

MaxCalls == 2       \* reconcile() calls in one behaviour
MaxRows == 2        \* rows of the trial balance
MaxSubRows == 2     \* second-level rows of the balance sheet
MaxAccounts == 2    \* accounts of the chart of accounts / bank report
MaxItems == 2       \* customers of the open receivables report

----------------------------------------------------------------------------
(* Python values *)

None == [py |-> "None"]
EmptyDict == [py |-> "dict"]
NoKeys == [k \in {} |-> 0]

Truthy(p) == p # None /\ p # EmptyDict

Has(d, k) == k \in DOMAIN d
Get(d, k, default) == IF k \in DOMAIN d THEN d[k] ELSE default
Put(d, k, v) == [x \in DOMAIN d \cup {k} |-> IF x = k THEN v ELSE d[x]]

Val(n) == [f |-> n]
BadValue == [s |-> "n/a"]
IsNumber(v) == "f" \in DOMAIN v

Abs(n) == IF n < 0 THEN -n ELSE n

Last(s) == s[Len(s)]

(* str.upper() on the letters, and the `in` operator of two strings *)
LowerCase == <<"a","b","c","d","e","f","g","h","i","j","k","l","m",
               "n","o","p","q","r","s","t","u","v","w","x","y","z">>
UpperCase == <<"A","B","C","D","E","F","G","H","I","J","K","L","M",
               "N","O","P","Q","R","S","T","U","V","W","X","Y","Z">>

UpperChar(c) ==
    IF \E i \in 1..26 : LowerCase[i] = c
    THEN UpperCase[CHOOSE i \in 1..26 : LowerCase[i] = c]
    ELSE c

Upper(s) == [i \in 1..Len(s) |-> UpperChar(s[i])]

In(needle, s) ==
    \E i \in 1..(Len(s) - Len(needle) + 1) :
        SubSeq(s, i, i + Len(needle) - 1) = needle

ASSET == <<"A","S","S","E","T">>
LIABILITY == <<"L","I","A","B","I","L","I","T","Y">>
EQUITY == <<"E","Q","U","I","T","Y">>
CURRENT == <<"C","U","R","R","E","N","T">>
FIXED == <<"F","I","X","E","D">>
PROPERTY == <<"P","R","O","P","E","R","T","Y">>
RETAINED == <<"R","E","T","A","I","N","E","D">>

----------------------------------------------------------------------------
(* Program constants *)

Tol == 1
BankLimit == 1000000 * 100
OpenItemsLimit == 500000 * 100
NonNegativeTypes == {"Accounts Receivable", "Cash", "Inventory"}

(* The operations class QuickBooksAPI defines, and a report source that    *)
(* also answers get_bank_accounts (the reconciler takes any object).       *)
QuickBooksAPI ==
    {"refresh_access_token", "get_company_info", "get_trial_balance",
     "get_balance_sheet_report", "get_open_ar", "get_open_ap",
     "get_chart_of_accounts"}
FullReportSource == QuickBooksAPI \cup {"get_bank_accounts"}

----------------------------------------------------------------------------
(* _validate_trial_balance, lines 561-590 *)

tb_col(col, t) ==
    IF Has(col, "value") /\ col.value # Val(0)
    THEN IF Has(col, "id") /\ col.id = "Debit"
         THEN IF IsNumber(col.value)
              THEN [t EXCEPT !.total_debits = @ + col.value.f]
              ELSE [t EXCEPT !.raised = "ValueError"]
         ELSE IF Has(col, "id") /\ col.id = "Credit"
         THEN IF IsNumber(col.value)
              THEN [t EXCEPT !.total_credits = @ + col.value.f]
              ELSE [t EXCEPT !.raised = "ValueError"]
         ELSE t
    ELSE t

RECURSIVE tb_cols(_, _)
tb_cols(cols, t) ==
    IF cols = <<>> \/ t.raised # "" THEN t
    ELSE tb_cols(Tail(cols), tb_col(Head(cols), t))

RECURSIVE tb_rows(_, _)
tb_rows(rows, t) ==
    IF rows = <<>> \/ t.raised # "" THEN t
    ELSE tb_rows(Tail(rows),
                 IF Has(Head(rows), "ColData")
                 THEN tb_cols(Head(rows).ColData, t)
                 ELSE t)

TrialBalanceTotals(tb) ==
    tb_rows(tb.Rows, [total_debits |-> 0, total_credits |-> 0, raised |-> ""])

TrialBalanceOutOfBalance_NoTolerance(difference) == difference > 0

TrialBalanceOutOfBalance(difference) == difference > Tol

TrialBalanceAdjustment_PositiveDelta(difference) ==
    [account_name |-> "Trial Balance Adjustment",
     original_amount |-> difference,
     adjusted_amount |-> 0,
     adjustment_amount |-> difference,
     reason |-> <<"Trial balance out of balance by $", difference>>,
     adjustment_type |-> "correction"]

TrialBalanceAdjustment(difference) ==
    [account_name |-> "Trial Balance Adjustment",
     original_amount |-> difference,
     adjusted_amount |-> 0,
     adjustment_amount |-> -difference,
     reason |-> <<"Trial balance out of balance by $", difference>>,
     adjustment_type |-> "correction"]

(* Every check maps the instance state (adjustments, reconciliation_checks) *)
(* to the instance state after it, or raises.                               *)
Self(adj, checks, raised) ==
    [adjustments |-> adj, reconciliation_checks |-> checks, raised |-> raised]

_validate_trial_balance(adj, checks, tb) ==
    IF ~Has(tb, "Rows") THEN Self(adj, checks, "")
    ELSE LET t == TrialBalanceTotals(tb)
             difference == Abs(t.total_debits - t.total_credits)
         IN  IF t.raised # "" THEN Self(adj, checks, t.raised)
             ELSE Self(IF TrialBalanceOutOfBalance(difference)
                       THEN Append(adj, TrialBalanceAdjustment(difference))
                       ELSE adj,
                       Put(checks, "trial_balance_difference", difference),
                       "")

----------------------------------------------------------------------------
(* _verify_balance_sheet_totals, lines 592-627 *)

bs_total_value(sub_row) == Get(Last(sub_row.ColData), "value", Val(0))

bs_has_total(sub_row) == Has(sub_row, "ColData") /\ Len(sub_row.ColData) > 1

bs_sub_row_LiabilityFirst(sub_row, t) ==
    IF bs_has_total(sub_row)
    THEN LET section_name == Get(sub_row, "group", <<>>)
             total_value == bs_total_value(sub_row)
         IN  IF ~IsNumber(total_value) THEN [t EXCEPT !.raised = "ValueError"]
             ELSE IF In(LIABILITY, Upper(section_name))
                  THEN [t EXCEPT !.total_liabilities = total_value.f]
             ELSE IF In(ASSET, Upper(section_name))
                  THEN [t EXCEPT !.total_assets = total_value.f]
             ELSE IF In(EQUITY, Upper(section_name))
                  THEN [t EXCEPT !.total_equity = total_value.f]
             ELSE t
    ELSE t

bs_sub_row(sub_row, t) ==
    IF bs_has_total(sub_row)
    THEN LET section_name == Get(sub_row, "group", <<>>)
             total_value == bs_total_value(sub_row)
         IN  IF ~IsNumber(total_value) THEN [t EXCEPT !.raised = "ValueError"]
             ELSE IF In(ASSET, Upper(section_name))
                  THEN [t EXCEPT !.total_assets = total_value.f]
             ELSE IF In(LIABILITY, Upper(section_name))
                  THEN [t EXCEPT !.total_liabilities = total_value.f]
             ELSE IF In(EQUITY, Upper(section_name))
                  THEN [t EXCEPT !.total_equity = total_value.f]
             ELSE t
    ELSE t

RECURSIVE bs_sub_rows(_, _)
bs_sub_rows(sub_rows, t) ==
    IF sub_rows = <<>> \/ t.raised # "" THEN t
    ELSE bs_sub_rows(Tail(sub_rows), bs_sub_row(Head(sub_rows), t))

RECURSIVE bs_rows(_, _)
bs_rows(rows, t) ==
    IF rows = <<>> \/ t.raised # "" THEN t
    ELSE bs_rows(Tail(rows),
                 IF Has(Head(rows), "Rows")
                 THEN bs_sub_rows(Head(rows).Rows, t)
                 ELSE t)

BalanceSheetTotals(bs) ==
    bs_rows(bs.Rows, [total_assets |-> 0, total_liabilities |-> 0,
                      total_equity |-> 0, raised |-> ""])

BalanceSheetAdjustment(difference) ==
    [account_name |-> "Balance Sheet Adjustment",
     original_amount |-> difference,
     adjusted_amount |-> 0,
     adjustment_amount |-> -difference,
     reason |-> <<"Balance sheet out of balance by $", difference>>,
     adjustment_type |-> "correction"]

_verify_balance_sheet_totals(adj, checks, bs) ==
    IF ~Has(bs, "Rows") THEN Self(adj, checks, "")
    ELSE LET t == BalanceSheetTotals(bs)
             difference ==
                 Abs(t.total_assets - (t.total_liabilities + t.total_equity))
         IN  IF t.raised # "" THEN Self(adj, checks, t.raised)
             ELSE Self(IF difference > Tol
                       THEN Append(adj, BalanceSheetAdjustment(difference))
                       ELSE adj,
                       Put(checks, "balance_sheet_difference", difference),
                       "")

----------------------------------------------------------------------------
(* _check_account_balances, lines 705-725 *)

MustNotBeNegative(account_type, current_balance) ==
    account_type \in NonNegativeTypes /\ current_balance < 0

NegativeBalanceAdjustment_SingleDelta(account_name, account_type, current_balance) ==
    [account_name |-> account_name,
     original_amount |-> current_balance,
     adjusted_amount |-> Abs(current_balance),
     adjustment_amount |-> Abs(current_balance),
     reason |-> <<"Negative balance in ", account_type, " account">>,
     adjustment_type |-> "correction"]

NegativeBalanceAdjustment(account_name, account_type, current_balance) ==
    [account_name |-> account_name,
     original_amount |-> current_balance,
     adjusted_amount |-> Abs(current_balance),
     adjustment_amount |-> Abs(current_balance) * 2,
     reason |-> <<"Negative balance in ", account_type, " account">>,
     adjustment_type |-> "correction"]

RECURSIVE coa_accounts(_, _)
coa_accounts(accounts, adj) ==
    IF accounts = <<>> THEN adj
    ELSE LET account == Head(accounts)
             account_name == Get(account, "Name", "")
             account_type == Get(account, "AccountType", "")
             current_balance == Get(account, "CurrentBalance", 0)
         IN  coa_accounts(Tail(accounts),
                 IF MustNotBeNegative(account_type, current_balance)
                 THEN Append(adj, NegativeBalanceAdjustment(
                                      account_name, account_type, current_balance))
                 ELSE adj)

_check_account_balances(adj, checks, coa) ==
    IF ~Has(coa, "QueryResponse") THEN Self(adj, checks, "")
    ELSE Self(coa_accounts(Get(coa.QueryResponse, "Account", <<>>), adj),
              checks, "")

----------------------------------------------------------------------------
(* _reconcile_bank_accounts, lines 629-648 *)

LargeBankBalance_NoAbs(ledger_balance) == ledger_balance > BankLimit

LargeBankBalance(ledger_balance) == Abs(ledger_balance) > BankLimit

LargeBankBalanceAdjustment(account_name, ledger_balance) ==
    [account_name |-> account_name,
     original_amount |-> ledger_balance,
     adjusted_amount |-> ledger_balance,
     adjustment_amount |-> 0,
     reason |-> <<"Large bank balance requires manual review: $", ledger_balance>>,
     adjustment_type |-> "info"]

RECURSIVE bank_loop_Prepends(_, _)
bank_loop_Prepends(accounts, adj) ==
    IF accounts = <<>> THEN adj
    ELSE LET account == Head(accounts)
             account_name == Get(account, "Name", "")
             ledger_balance == Get(account, "CurrentBalance", 0)
         IN  bank_loop_Prepends(Tail(accounts),
                 IF LargeBankBalance(ledger_balance)
                 THEN <<LargeBankBalanceAdjustment(account_name, ledger_balance)>> \o adj
                 ELSE adj)

RECURSIVE bank_loop(_, _)
bank_loop(accounts, adj) ==
    IF accounts = <<>> THEN adj
    ELSE LET account == Head(accounts)
             account_name == Get(account, "Name", "")
             ledger_balance == Get(account, "CurrentBalance", 0)
         IN  bank_loop(Tail(accounts),
                 IF LargeBankBalance(ledger_balance)
                 THEN Append(adj, LargeBankBalanceAdjustment(account_name, ledger_balance))
                 ELSE adj)

_reconcile_bank_accounts_NoNullGuard(adj, checks, bank) ==
    IF bank = None THEN Self(adj, checks, "TypeError")
    ELSE IF ~Has(bank, "QueryResponse") THEN Self(adj, checks, "")
    ELSE Self(bank_loop(Get(bank.QueryResponse, "Account", <<>>), adj),
              checks, "")

_reconcile_bank_accounts(adj, checks, bank) ==
    IF ~Truthy(bank) \/ ~Has(bank, "QueryResponse") THEN Self(adj, checks, "")
    ELSE Self(bank_loop(Get(bank.QueryResponse, "Account", <<>>), adj),
              checks, "")

----------------------------------------------------------------------------
(* _verify_open_items, lines 650-676 *)

RECURSIVE SumBalances(_)
SumBalances(items) ==
    IF items = <<>> THEN 0
    ELSE Get(Head(items), "Balance", 0) + SumBalances(Tail(items))

open_total_CustomersOnly(report, entity) ==
    IF Truthy(report) /\ Has(report, "QueryResponse")
    THEN SumBalances(Get(report.QueryResponse, "Customer", <<>>))
    ELSE 0

open_total(report, entity) ==
    IF Truthy(report) /\ Has(report, "QueryResponse")
    THEN SumBalances(Get(report.QueryResponse, entity, <<>>))
    ELSE 0

HighOpenReceivables_OrPayables(total_ar, total_ap) ==
    total_ar > OpenItemsLimit \/ total_ap > OpenItemsLimit

HighOpenReceivables(total_ar, total_ap) == total_ar > OpenItemsLimit

OpenReceivablesAdjustment(total_ar) ==
    [account_name |-> "Accounts Receivable",
     original_amount |-> total_ar,
     adjusted_amount |-> total_ar,
     adjustment_amount |-> 0,
     reason |-> <<"High A/R balance requires review: $", total_ar>>,
     adjustment_type |-> "info"]

_verify_open_items(adj, checks, ar, ap) ==
    LET total_ar == open_total(ar, "Customer")
        total_ap == open_total(ap, "Vendor")
    IN  Self(IF HighOpenReceivables(total_ar, total_ap)
             THEN Append(adj, OpenReceivablesAdjustment(total_ar))
             ELSE adj,
             Put(Put(checks, "total_open_ar", total_ar), "total_open_ap", total_ap),
             "")

----------------------------------------------------------------------------
(* _validate_retained_earnings, lines 678-703 *)

RECURSIVE re_sub_rows(_, _)
re_sub_rows(sub_rows, t) ==
    IF sub_rows = <<>> THEN t
    ELSE LET sub_row == Head(sub_rows)
         IN  IF bs_has_total(sub_row)
                /\ In(RETAINED, Upper(Get(sub_row, "group", <<>>)))
             THEN IF IsNumber(bs_total_value(sub_row))
                  THEN [t EXCEPT !.retained_earnings = bs_total_value(sub_row).f]
                  ELSE [t EXCEPT !.raised = "ValueError"]
             ELSE re_sub_rows(Tail(sub_rows), t)

RECURSIVE re_rows(_, _)
re_rows(rows, t) ==
    IF rows = <<>> \/ t.raised # "" THEN t
    ELSE re_rows(Tail(rows),
                 IF Has(Head(rows), "Rows")
                 THEN re_sub_rows(Head(rows).Rows, t)
                 ELSE t)

RetainedEarnings(bs) ==
    re_rows(bs.Rows, [retained_earnings |-> 0, raised |-> ""])

RetainedEarningsAdjustment_ToZero(retained_earnings) ==
    [account_name |-> "Retained Earnings",
     original_amount |-> retained_earnings,
     adjusted_amount |-> 0,
     adjustment_amount |-> 0,
     reason |-> <<"Negative retained earnings: $", retained_earnings>>,
     adjustment_type |-> "info"]

RetainedEarningsAdjustment(retained_earnings) ==
    [account_name |-> "Retained Earnings",
     original_amount |-> retained_earnings,
     adjusted_amount |-> retained_earnings,
     adjustment_amount |-> 0,
     reason |-> <<"Negative retained earnings: $", retained_earnings>>,
     adjustment_type |-> "info"]

_validate_retained_earnings(adj, checks, bs) ==
    IF ~Has(bs, "Rows") THEN Self(adj, checks, "")
    ELSE LET t == RetainedEarnings(bs)
         IN  IF t.raised # "" THEN Self(adj, checks, t.raised)
             ELSE Self(IF t.retained_earnings < 0
                       THEN Append(adj, RetainedEarningsAdjustment(t.retained_earnings))
                       ELSE adj,
                       checks, "")

----------------------------------------------------------------------------
(* _generate_summary_balance_sheet, lines 727-771 *)

EmptySummary ==
    [assets |-> [current |-> 0, fixed |-> 0, other |-> 0],
     liabilities |-> [current |-> 0, long_term |-> 0],
     equity |-> [owners_equity |-> 0, retained_earnings |-> 0, net_income |-> 0]]

Categorize_EquityFirst(summary, account_name, total_value) ==
    LET name == Upper(account_name)
    IN  IF In(EQUITY, name)
        THEN IF In(RETAINED, name)
             THEN [summary EXCEPT !.equity.retained_earnings = total_value]
             ELSE [summary EXCEPT !.equity.owners_equity = total_value]
        ELSE IF In(ASSET, name)
        THEN IF In(CURRENT, name)
             THEN [summary EXCEPT !.assets.current = total_value]
             ELSE IF In(FIXED, name) \/ In(PROPERTY, name)
             THEN [summary EXCEPT !.assets.fixed = total_value]
             ELSE [summary EXCEPT !.assets.other = total_value]
        ELSE IF In(LIABILITY, name)
        THEN IF In(CURRENT, name)
             THEN [summary EXCEPT !.liabilities.current = total_value]
             ELSE [summary EXCEPT !.liabilities.long_term = total_value]
        ELSE summary

Categorize_Sums(summary, account_name, total_value) ==
    LET name == Upper(account_name)
    IN  IF In(ASSET, name)
        THEN IF In(CURRENT, name)
             THEN [summary EXCEPT !.assets.current = @ + total_value]
             ELSE IF In(FIXED, name) \/ In(PROPERTY, name)
             THEN [summary EXCEPT !.assets.fixed = @ + total_value]
             ELSE [summary EXCEPT !.assets.other = @ + total_value]
        ELSE IF In(LIABILITY, name)
        THEN IF In(CURRENT, name)
             THEN [summary EXCEPT !.liabilities.current = @ + total_value]
             ELSE [summary EXCEPT !.liabilities.long_term = @ + total_value]
        ELSE IF In(EQUITY, name)
        THEN IF In(RETAINED, name)
             THEN [summary EXCEPT !.equity.retained_earnings = @ + total_value]
             ELSE [summary EXCEPT !.equity.owners_equity = @ + total_value]
        ELSE summary

Categorize(summary, account_name, total_value) ==
    LET name == Upper(account_name)
    IN  IF In(ASSET, name)
        THEN IF In(CURRENT, name)
             THEN [summary EXCEPT !.assets.current = total_value]
             ELSE IF In(FIXED, name) \/ In(PROPERTY, name)
             THEN [summary EXCEPT !.assets.fixed = total_value]
             ELSE [summary EXCEPT !.assets.other = total_value]
        ELSE IF In(LIABILITY, name)
        THEN IF In(CURRENT, name)
             THEN [summary EXCEPT !.liabilities.current = total_value]
             ELSE [summary EXCEPT !.liabilities.long_term = total_value]
        ELSE IF In(EQUITY, name)
        THEN IF In(RETAINED, name)
             THEN [summary EXCEPT !.equity.retained_earnings = total_value]
             ELSE [summary EXCEPT !.equity.owners_equity = total_value]
        ELSE summary

sum_sub_row(sub_row, t) ==
    IF bs_has_total(sub_row)
    THEN IF IsNumber(bs_total_value(sub_row))
         THEN [t EXCEPT !.summary = Categorize(@, Get(sub_row, "group", <<>>),
                                               bs_total_value(sub_row).f)]
         ELSE [t EXCEPT !.raised = "ValueError"]
    ELSE t

RECURSIVE sum_sub_rows(_, _)
sum_sub_rows(sub_rows, t) ==
    IF sub_rows = <<>> \/ t.raised # "" THEN t
    ELSE sum_sub_rows(Tail(sub_rows), sum_sub_row(Head(sub_rows), t))

RECURSIVE sum_rows(_, _)
sum_rows(rows, t) ==
    IF rows = <<>> \/ t.raised # "" THEN t
    ELSE sum_rows(Tail(rows),
                  IF Has(Head(rows), "Rows")
                  THEN sum_sub_rows(Head(rows).Rows, t)
                  ELSE t)

WithTotals_CurrentAndFixed(summary) ==
    [assets |-> summary.assets,
     liabilities |-> summary.liabilities,
     equity |-> summary.equity,
     total_assets |-> summary.assets.current + summary.assets.fixed,
     total_liabilities |->
         summary.liabilities.current + summary.liabilities.long_term,
     total_equity |->
         summary.equity.owners_equity + summary.equity.retained_earnings]

WithTotals(summary) ==
    [assets |-> summary.assets,
     liabilities |-> summary.liabilities,
     equity |-> summary.equity,
     total_assets |->
         summary.assets.current + summary.assets.fixed + summary.assets.other,
     total_liabilities |->
         summary.liabilities.current + summary.liabilities.long_term,
     total_equity |->
         summary.equity.owners_equity + summary.equity.retained_earnings]

RECURSIVE SumDeltas(_)
SumDeltas(adj) ==
    IF adj = <<>> THEN 0 ELSE Head(adj).adjustment_amount + SumDeltas(Tail(adj))

_generate_summary_balance_sheet_AppliesAdjustments(adj, checks, bs) ==
    IF ~Has(bs, "Rows") THEN [value |-> NoKeys, raised |-> ""]
    ELSE LET t == sum_rows(bs.Rows, [summary |-> EmptySummary, raised |-> ""])
         IN  IF t.raised # "" THEN [value |-> NoKeys, raised |-> t.raised]
             ELSE [value |-> [WithTotals(t.summary) EXCEPT
                                 !.total_assets = @ + SumDeltas(adj)],
                   raised |-> ""]

(* [value, raised]: the returned summary, or the exception raised *)
_generate_summary_balance_sheet(adj, checks, bs) ==
    IF ~Has(bs, "Rows") THEN [value |-> NoKeys, raised |-> ""]
    ELSE LET t == sum_rows(bs.Rows, [summary |-> EmptySummary, raised |-> ""])
         IN  IF t.raised # "" THEN [value |-> NoKeys, raised |-> t.raised]
             ELSE [value |-> WithTotals(t.summary), raised |-> ""]

is_balanced_Inclusive(summary) ==
    Abs(summary.total_assets
        - (summary.total_liabilities + summary.total_equity)) <= Tol

is_balanced(summary) ==
    Abs(summary.total_assets
        - (summary.total_liabilities + summary.total_equity)) < Tol

----------------------------------------------------------------------------
(* The report payloads the report source may answer with.  Each set is     *)
(* built from a few rows, combined in every order up to the bound.         *)

RECURSIVE SeqsUpTo(_, _)
SeqsUpTo(S, n) ==
    IF n = 0 THEN {<<>>}
    ELSE LET shorter == SeqsUpTo(S, n - 1)
         IN  shorter \cup {Append(q, x) : q \in shorter, x \in S}

Text == BadValue

CurrentAssetsLabel == <<"c","u","r","r","e","n","t"," ","a","s","s","e","t","s">>
FixedAssetsLabel == <<"F","i","x","e","d"," ","A","s","s","e","t","s">>
TotalAssetsLabel == <<"T","o","t","a","l"," ","A","s","s","e","t","s">>
TotalLiabilityLabel == <<"T","o","t","a","l"," ","L","i","a","b","i","l","i","t","y">>
CurrentLiabilityLabel == <<"C","u","r","r","e","n","t"," ","l","i","a","b","i","l","i","t","y">>
LiabilitiesLabel == <<"L","i","a","b","i","l","i","t","i","e","s">>
EquityLabel == <<"E","q","u","i","t","y">>
RetainedEarningsLabel == <<"R","e","t","a","i","n","e","d"," ","E","a","r","n","i","n","g","s">>
RetainedEquityLabel == <<"R","e","t","a","i","n","e","d"," ","e","q","u","i","t","y">>
AssetRetirementLabel ==
    <<"A","s","s","e","t"," ","R","e","t","i","r","e","m","e","n","t"," ",
      "L","i","a","b","i","l","i","t","y">>
LiabilityEquityLabel ==
    <<"L","i","a","b","i","l","i","t","y"," ","a","n","d"," ","E","q","u","i","t","y">>
PropertyAssetsLabel == <<"P","r","o","p","e","r","t","y"," ","A","s","s","e","t","s">>

(* Trial balance: rows with a text column, a Debit and a Credit column *)
TBRow(d, c) ==
    [ColData |-> <<[value |-> Text],
                   [id |-> "Debit", value |-> Val(d)],
                   [id |-> "Credit", value |-> Val(c)]>>]

TBRowSet ==
    {TBRow(3, 0), TBRow(0, 3), TBRow(0, 2),
     \* a section row: no ColData of its own, its rows nested below it
     [type |-> "Section", Rows |-> <<TBRow(5, 0)>>],
     \* a Debit column that float() cannot parse
     [ColData |-> <<[value |-> Text], [id |-> "Debit", value |-> BadValue]>>],
     \* a Debit column without a value, and an untagged column
     [ColData |-> <<[id |-> "Debit"], [value |-> Val(7)]>>]}

TrialBalanceDict(rows) == [Header |-> "TrialBalance", Rows |-> rows]

ScenarioA == TrialBalanceDict(<<TBRow(10000000, 0), TBRow(0, 10000000)>>)
ScenarioB == TrialBalanceDict(<<TBRow(10050000, 0), TBRow(0, 10000000)>>)

TrialBalances ==
    {TrialBalanceDict(rows) : rows \in SeqsUpTo(TBRowSet, MaxRows)}
    \cup {ScenarioA, ScenarioB, [Header |-> "TrialBalance"]}

(* Balance sheet: top-level section rows holding the group rows *)
BSRow(label, v) ==
    [group |-> label, ColData |-> <<[value |-> Text], [value |-> Val(v)]>>]

BSRowSet ==
    {BSRow(CurrentAssetsLabel, 500), BSRow(FixedAssetsLabel, 300),
     BSRow(TotalAssetsLabel, 800), BSRow(TotalLiabilityLabel, 800),
     BSRow(CurrentLiabilityLabel, 799),
     BSRow(EquityLabel, 300), BSRow(RetainedEarningsLabel, -100),
     BSRow(RetainedEquityLabel, -1),
     \* the last column is not a number
     [group |-> TotalAssetsLabel, ColData |-> <<[value |-> Text], [value |-> BadValue]>>]}

(* Rows without the substructure the checks read: a single column, no     *)
(* group label and no value, no columns at all                             *)
BSOddRows ==
    <<[group |-> EquityLabel, ColData |-> <<[value |-> Val(900)]>>],
      [ColData |-> <<[value |-> Text], [id |-> "total"]>>],
      [group |-> LiabilitiesLabel]>>

BalanceSheetDict(first, second) ==
    [Header |-> "BalanceSheet",
     Rows |-> <<[type |-> "Section", Rows |-> first],
                [type |-> "Data"],
                [type |-> "Section", Rows |-> second]>>]

ScenarioD ==
    BalanceSheetDict(<<BSRow(TotalAssetsLabel, 50000000)>>,
                     <<BSRow(TotalLiabilityLabel, 20000000),
                       BSRow(EquityLabel, 30000000)>>)

(* Balance sheets with labels that hold two of the keywords, with a       *)
(* retained-earnings group in each section, with two groups of one kind in *)
(* different sections, and with a group of every kind                      *)
BSSamples ==
    {BalanceSheetDict(<<BSRow(AssetRetirementLabel, 40),
                        BSRow(LiabilityEquityLabel, 40)>>, <<>>),
     BalanceSheetDict(<<BSRow(RetainedEarningsLabel, 100)>>,
                      <<BSRow(RetainedEquityLabel, -1)>>),
     BalanceSheetDict(<<BSRow(RetainedEarningsLabel, 100),
                        BSRow(RetainedEquityLabel, -1)>>, <<>>),
     BalanceSheetDict(<<BSRow(TotalAssetsLabel, 800)>>,
                      <<BSRow(AssetRetirementLabel, 40)>>),
     BalanceSheetDict(<<BSRow(CurrentAssetsLabel, 500),
                        BSRow(PropertyAssetsLabel, 300),
                        BSRow(TotalAssetsLabel, 800)>>,
                      <<BSRow(CurrentLiabilityLabel, 799),
                        BSRow(TotalLiabilityLabel, 800),
                        BSRow(EquityLabel, 300),
                        BSRow(RetainedEquityLabel, -1)>>)}

(* Balance sheets on which the totals check and the summary read         *)
(* different assets: the last asset row (3.00, then 8.00) against the sum  *)
(* of the asset buckets (8.00, then 13.00), with liabilities of 8.00       *)
AssetsSplit ==
    BalanceSheetDict(<<BSRow(CurrentAssetsLabel, 500), BSRow(FixedAssetsLabel, 300)>>,
                     <<BSRow(TotalLiabilityLabel, 800)>>)

AssetsTwice ==
    BalanceSheetDict(<<BSRow(CurrentAssetsLabel, 500), BSRow(TotalAssetsLabel, 800)>>,
                     <<BSRow(TotalLiabilityLabel, 800)>>)

BalanceSheets ==
    UNION {{BalanceSheetDict(SubSeq(q, 1, k), SubSeq(q, k + 1, Len(q))) :
               k \in IF Len(q) = 2 THEN {0, 1} ELSE IF Len(q) > 2 THEN {1} ELSE {0}} :
           q \in SeqsUpTo(BSRowSet, MaxSubRows)}
    \cup {ScenarioD, [Header |-> "BalanceSheet"],
          BalanceSheetDict(BSOddRows, <<BSRow(LiabilitiesLabel, 400)>>)}
    \cup BSSamples \cup {AssetsSplit, AssetsTwice}

(* Chart of accounts and bank accounts: query responses *)
Acct(name, type, balance) ==
    [Name |-> name, AccountType |-> type, CurrentBalance |-> balance]

AccountSet ==
    {Acct("Petty Cash", "Cash", -20000), Acct("Till", "Cash", 0),
     Acct("Debtors", "Accounts Receivable", -1), Acct("Stock", "Inventory", -5),
     Acct("Stock", "Inventory", 5), Acct("Loan", "Long Term Liability", -50),
     [Id |-> "7"]}

QueryResponse(entity, items) ==
    [time |-> "now", QueryResponse |-> [e \in {entity} |-> items]]

ScenarioC == QueryResponse("Account", <<Acct("Petty Cash", "Cash", -20000)>>)

ChartsOfAccounts ==
    {QueryResponse("Account", a) : a \in SeqsUpTo(AccountSet, MaxAccounts)}
    \cup {[time |-> "now"], [time |-> "now", QueryResponse |-> NoKeys]}

BankAcct(name, balance) == [Name |-> name, CurrentBalance |-> balance]

BankAccountSet ==
    {BankAcct("Checking", BankLimit), BankAcct("Checking", BankLimit + 1),
     BankAcct("Savings", -BankLimit), BankAcct("Savings", -BankLimit - 1),
     BankAcct("Escrow", 5), [Id |-> "9"]}

BankReports ==
    {QueryResponse("Account", a) : a \in SeqsUpTo(BankAccountSet, MaxAccounts)}
    \cup {[time |-> "now"], [time |-> "now", QueryResponse |-> NoKeys],
          None, EmptyDict}

(* Open receivables and payables *)
CustomerSet ==
    {[Balance |-> 1], [Balance |-> OpenItemsLimit \div 2],
     [Balance |-> OpenItemsLimit \div 2 + 1], [Id |-> "3"]}

OpenReceivables ==
    {QueryResponse("Customer", c) : c \in SeqsUpTo(CustomerSet, MaxItems)}
    \cup {[time |-> "now"], [time |-> "now", QueryResponse |-> NoKeys],
          None, EmptyDict}

OpenPayables ==
    {QueryResponse("Vendor", <<>>),
     QueryResponse("Vendor", <<[Balance |-> OpenItemsLimit], [Balance |-> 1]>>),
     QueryResponse("Vendor", <<[Balance |-> 3 * OpenItemsLimit]>>),
     [time |-> "now"], None}

(* The answers of a source whose books are in order *)
BaseReports ==
    [trial_balance |-> TrialBalanceDict(<<TBRow(3, 0), TBRow(0, 3)>>),
     balance_sheet |-> BalanceSheetDict(<<BSRow(TotalAssetsLabel, 800)>>,
                                        <<BSRow(TotalLiabilityLabel, 800)>>),
     chart_of_accounts |-> QueryResponse("Account", <<Acct("Till", "Cash", 0)>>),
     open_ar |-> QueryResponse("Customer", <<[Balance |-> 1]>>),
     open_ap |-> QueryResponse("Vendor", <<>>),
     bank_accounts |-> QueryResponse("Account", <<BankAcct("Escrow", 5)>>)]

(* The answers of a source on whose books every check finds something *)
AllFlagged ==
    [trial_balance |-> ScenarioB,
     balance_sheet |-> BalanceSheetDict(<<BSRow(TotalAssetsLabel, 800)>>,
                                        <<BSRow(RetainedEquityLabel, -1)>>),
     chart_of_accounts |-> QueryResponse("Account",
                               <<Acct("Stock", "Inventory", -5),
                                 Acct("Debtors", "Accounts Receivable", -1)>>),
     open_ar |-> QueryResponse("Customer", <<[Balance |-> OpenItemsLimit],
                                             [Balance |-> 1]>>),
     open_ap |-> QueryResponse("Vendor", <<[Balance |-> 3 * OpenItemsLimit]>>),
     bank_accounts |-> QueryResponse("Account",
                           <<BankAcct("Savings", -BankLimit - 1),
                             BankAcct("Checking", BankLimit + 1)>>)]

(* Every report present or missing (None, or an empty answer) *)
MissingCombinations ==
    {[trial_balance |-> tb, balance_sheet |-> bs, chart_of_accounts |-> coa,
      open_ar |-> ar, open_ap |-> ap, bank_accounts |-> bank] :
        tb \in {BaseReports.trial_balance, None, EmptyDict},
        bs \in {BaseReports.balance_sheet, None, EmptyDict},
        coa \in {BaseReports.chart_of_accounts, None},
        ar \in {BaseReports.open_ar, None},
        ap \in {BaseReports.open_ap, None},
        bank \in {BaseReports.bank_accounts, None}}

ReportSets ==
    MissingCombinations
    \cup {[BaseReports EXCEPT !.trial_balance = x] : x \in TrialBalances}
    \cup {[BaseReports EXCEPT !.balance_sheet = x] : x \in BalanceSheets}
    \cup {[BaseReports EXCEPT !.chart_of_accounts = x] : x \in ChartsOfAccounts \cup {ScenarioC}}
    \cup {[BaseReports EXCEPT !.bank_accounts = x] : x \in BankReports}
    \cup {[BaseReports EXCEPT !.open_ar = x, !.open_ap = y] :
             x \in OpenReceivables,
             y \in {BaseReports.open_ap, None,
                    QueryResponse("Vendor", <<[Balance |-> 3 * OpenItemsLimit]>>)}}
    \cup {[BaseReports EXCEPT !.open_ap = y] : y \in OpenPayables}
    \cup {AllFlagged}

----------------------------------------------------------------------------
(* State after BalanceSheetReconciler(qbo_api), lines 491-494, on an empty *)
(* store.                                                                  *)

Init ==
    /\ qbo_api \in {QuickBooksAPI, FullReportSource}
    /\ reports \in ReportSets
    /\ pc = "idle"
    /\ calls = 0
    /\ trial_balance = None
    /\ balance_sheet = None
    /\ chart_of_accounts = None
    /\ open_ar = None
    /\ open_ap = None
    /\ bank_accounts = None
    /\ adjustments = <<>>
    /\ reconciliation_checks = NoKeys
    /\ summary_bs = NoKeys
    /\ reconciliation_log = None
    /\ db_snapshots = <<>>
    /\ db_adjustments = <<>>
    /\ outcome = "none"
    /\ results = <<>>

(* A returned result holds self.adjustments and self.reconciliation_checks *)
(* themselves (lines 556-557), not copies: while the reconciler that       *)
(* returned it is still the one in use (live), the result shows what these *)
(* objects hold now.                                                       *)
Aliased(rs, adj, checks) ==
    [i \in 1..Len(rs) |->
        IF rs[i].live
        THEN [rs[i] EXCEPT !.adjustments = adj, !.reconciliation_checks = checks]
        ELSE rs[i]]

(* The exception leaves reconcile(): its locals are gone *)
Raise(exception) ==
    /\ outcome' = exception
    /\ pc' = "idle"
    /\ trial_balance' = None
    /\ balance_sheet' = None
    /\ chart_of_accounts' = None
    /\ open_ar' = None
    /\ open_ap' = None
    /\ bank_accounts' = None
    /\ summary_bs' = NoKeys
    /\ reconciliation_log' = None

KeepLocals ==
    UNCHANGED <<trial_balance, balance_sheet, chart_of_accounts, open_ar,
                open_ap, bank_accounts, summary_bs, reconciliation_log>>

KeepStore == UNCHANGED <<db_snapshots, db_adjustments>>

KeepSource == UNCHANGED <<qbo_api, reports>>

(* __init__, lines 491-494: a new reconciler on the same report source *)
NewReconciler ==
    /\ pc = "idle"
    /\ adjustments' = <<>>
    /\ reconciliation_checks' = NoKeys
    /\ results' = [i \in 1..Len(results) |-> [results[i] EXCEPT !.live = FALSE]]
    /\ UNCHANGED <<pc, calls, outcome>>
    /\ KeepLocals /\ KeepStore /\ KeepSource

MandatoryPresent_ChartForgotten(tb, bs, coa) == Truthy(tb) /\ Truthy(bs)

MandatoryPresent(tb, bs, coa) == Truthy(tb) /\ Truthy(bs) /\ Truthy(coa)

(* reconcile(), lines 496-509: the six fetches and the check of the three  *)
(* mandatory reports                                                       *)
Fetch ==
    /\ pc = "idle"
    /\ calls < MaxCalls
    /\ calls' = calls + 1
    /\ IF "get_bank_accounts" \notin qbo_api
       THEN Raise("AttributeError")
       ELSE IF ~MandatoryPresent(reports.trial_balance, reports.balance_sheet,
                                 reports.chart_of_accounts)
       THEN Raise("Exception")
       ELSE /\ trial_balance' = reports.trial_balance
            /\ balance_sheet' = reports.balance_sheet
            /\ chart_of_accounts' = reports.chart_of_accounts
            /\ open_ar' = reports.open_ar
            /\ open_ap' = reports.open_ap
            /\ bank_accounts' = reports.bank_accounts
            /\ pc' = "validate_trial_balance"
            /\ outcome' = "running"
            /\ UNCHANGED <<summary_bs, reconciliation_log>>
    /\ UNCHANGED <<adjustments, reconciliation_checks, results>>
    /\ KeepStore /\ KeepSource

(* One of the six checks, lines 512-517: r is what the check makes of the  *)
(* instance state                                                          *)
Check(at, r, next) ==
    /\ pc = at
    /\ IF r.raised # ""
       THEN /\ Raise(r.raised)
            /\ UNCHANGED <<adjustments, reconciliation_checks, results>>
       ELSE /\ adjustments' = r.adjustments
            /\ reconciliation_checks' = r.reconciliation_checks
            /\ results' = Aliased(results, r.adjustments, r.reconciliation_checks)
            /\ pc' = next
            /\ UNCHANGED outcome
            /\ KeepLocals
    /\ UNCHANGED calls
    /\ KeepStore /\ KeepSource

ValidateTrialBalance ==
    Check("validate_trial_balance",
          _validate_trial_balance(adjustments, reconciliation_checks, trial_balance),
          "verify_balance_sheet_totals")

VerifyBalanceSheetTotals ==
    Check("verify_balance_sheet_totals",
          _verify_balance_sheet_totals(adjustments, reconciliation_checks, balance_sheet),
          "check_account_balances")

CheckAccountBalances ==
    Check("check_account_balances",
          _check_account_balances(adjustments, reconciliation_checks, chart_of_accounts),
          "reconcile_bank_accounts")

ReconcileBankAccounts ==
    Check("reconcile_bank_accounts",
          _reconcile_bank_accounts(adjustments, reconciliation_checks, bank_accounts),
          "verify_open_items")

VerifyOpenItems ==
    Check("verify_open_items",
          _verify_open_items(adjustments, reconciliation_checks, open_ar, open_ap),
          "validate_retained_earnings")

ValidateRetainedEarnings ==
    Check("validate_retained_earnings",
          _validate_retained_earnings(adjustments, reconciliation_checks, balance_sheet),
          "generate_summary")

(* line 520 *)
GenerateSummary ==
    /\ pc = "generate_summary"
    /\ LET r == _generate_summary_balance_sheet(adjustments, reconciliation_checks,
                                                balance_sheet)
       IN  IF r.raised # "" THEN Raise(r.raised)
           ELSE /\ summary_bs' = r.value
                /\ pc' = "log_snapshot"
                /\ UNCHANGED <<outcome, trial_balance, balance_sheet,
                               chart_of_accounts, open_ar, open_ap,
                               bank_accounts, reconciliation_log>>
    /\ UNCHANGED <<calls, adjustments, reconciliation_checks, results>>
    /\ KeepStore /\ KeepSource

(* lines 523-535: the snapshot row is built, added and committed; the      *)
(* commit may fail                                                         *)
Snapshot_FlagFromTotalsCheck(summary, adj, id) ==
    [id |-> id,
     total_assets |-> summary.total_assets,
     total_liabilities |-> summary.total_liabilities,
     total_equity |-> summary.total_equity,
     is_balanced |->
         ~\E i \in 1..Len(adj) : adj[i].account_name = "Balance Sheet Adjustment",
     adjustments_count |-> Len(adj),
     status |-> "completed"]

Snapshot(summary, adj, id) ==
    [id |-> id,
     total_assets |-> summary.total_assets,
     total_liabilities |-> summary.total_liabilities,
     total_equity |-> summary.total_equity,
     is_balanced |-> is_balanced(summary),
     adjustments_count |-> Len(adj),
     status |-> "completed"]

LogSnapshot ==
    /\ pc = "log_snapshot"
    /\ IF ~Has(summary_bs, "total_assets") THEN Raise("KeyError")
       ELSE \/ /\ reconciliation_log' =
                      Snapshot(summary_bs, adjustments, Len(db_snapshots) + 1)
               /\ db_snapshots' = Append(db_snapshots, reconciliation_log')
               /\ pc' = "save_adjustments"
               /\ UNCHANGED <<outcome, trial_balance, balance_sheet,
                              chart_of_accounts, open_ar, open_ap,
                              bank_accounts, summary_bs>>
            \/ /\ Raise("SQLAlchemyError")
               /\ UNCHANGED db_snapshots
    /\ IF ~Has(summary_bs, "total_assets") THEN UNCHANGED db_snapshots ELSE TRUE
    /\ UNCHANGED <<calls, adjustments, reconciliation_checks, results, db_adjustments>>
    /\ KeepSource

(* lines 538-550: one row per adjustment, linked to the snapshot *)
AdjustmentRows_Unlinked(adj, log_id) ==
    [i \in 1..Len(adj) |->
        [reconciliation_log_id |-> 0,
         account_name |-> adj[i].account_name,
         original_amount |-> adj[i].original_amount,
         adjusted_amount |-> adj[i].adjusted_amount,
         adjustment_amount |-> adj[i].adjustment_amount,
         reason |-> adj[i].reason,
         adjustment_type |-> adj[i].adjustment_type]]

AdjustmentRows(adj, log_id) ==
    [i \in 1..Len(adj) |->
        [reconciliation_log_id |-> log_id,
         account_name |-> adj[i].account_name,
         original_amount |-> adj[i].original_amount,
         adjusted_amount |-> adj[i].adjusted_amount,
         adjustment_amount |-> adj[i].adjustment_amount,
         reason |-> adj[i].reason,
         adjustment_type |-> adj[i].adjustment_type]]

Result(summary, adj, checks, log) ==
    [summary_balance_sheet |-> summary,
     adjustments |-> adj,
     reconciliation_checks |-> checks,
     is_balanced |-> log.is_balanced,
     live |-> TRUE]

(* lines 538-559: the adjustment rows are added and committed, and the     *)
(* result is returned; the commit may fail                                 *)
SaveAdjustments ==
    /\ pc = "save_adjustments"
    /\ \/ /\ db_adjustments' =
                 db_adjustments \o AdjustmentRows(adjustments, reconciliation_log.id)
          /\ results' = Append(results, Result(summary_bs, adjustments,
                                               reconciliation_checks,
                                               reconciliation_log))
          /\ Raise("returned")
       \/ /\ Raise("SQLAlchemyError")
          /\ UNCHANGED <<db_adjustments, results>>
    /\ UNCHANGED <<calls, adjustments, reconciliation_checks, db_snapshots>>
    /\ KeepSource

Next ==
    \/ NewReconciler
    \/ Fetch
    \/ ValidateTrialBalance
    \/ VerifyBalanceSheetTotals
    \/ CheckAccountBalances
    \/ ReconcileBankAccounts
    \/ VerifyOpenItems
    \/ ValidateRetainedEarnings
    \/ GenerateSummary
    \/ LogSnapshot
    \/ SaveAdjustments

Spec == Init /\ [][Next]_vars

----------------------------------------------------------------------------
(* What the claims speak of, stated apart from the code's loops *)

RECURSIVE SumSeq(_)
SumSeq(q) == IF q = <<>> THEN 0 ELSE Head(q) + SumSeq(Tail(q))

RECURSIVE Flatten(_)
Flatten(qq) == IF qq = <<>> THEN <<>> ELSE Head(qq) \o Flatten(Tail(qq))

(* The columns of the rows of a trial balance that carry the tag *)
TaggedColumns(tb, tag) ==
    LET rows == SelectSeq(tb.Rows, LAMBDA row : Has(row, "ColData"))
        cols == Flatten([i \in 1..Len(rows) |-> rows[i].ColData])
    IN  SelectSeq(cols, LAMBDA col : Has(col, "id") /\ col.id = tag /\ Has(col, "value"))

TaggedTotal(tb, tag) ==
    LET cols == TaggedColumns(tb, tag)
    IN  SumSeq([i \in 1..Len(cols) |-> cols[i].value.f])

(* A trial balance with rows whose Debit and Credit values are all numbers *)
HasTotals(tb) ==
    /\ Has(tb, "Rows")
    /\ \A tag \in {"Debit", "Credit"} :
          \A i \in 1..Len(TaggedColumns(tb, tag)) :
              IsNumber(TaggedColumns(tb, tag)[i].value)

Imbalance(tb) == Abs(TaggedTotal(tb, "Debit") - TaggedTotal(tb, "Credit"))

(* adj_after is adj_before with exactly these adjustments appended, as far *)
(* as the fields the claims name go                                        *)
Core(a) ==
    [account_name |-> a.account_name,
     original_amount |-> a.original_amount,
     adjusted_amount |-> a.adjusted_amount,
     adjustment_amount |-> a.adjustment_amount,
     adjustment_type |-> a.adjustment_type]

Appended(adj_before, adj_after, expected) ==
    /\ Len(adj_after) = Len(adj_before) + Len(expected)
    /\ SubSeq(adj_after, 1, Len(adj_before)) = adj_before
    /\ \A i \in 1..Len(expected) :
          Core(adj_after[Len(adj_before) + i]) = expected[i]

Expect(name, original, adjusted, delta, type) ==
    [account_name |-> name, original_amount |-> original,
     adjusted_amount |-> adjusted, adjustment_amount |-> delta,
     adjustment_type |-> type]

----------------------------------------------------------------------------
(* C1: whenever the trial-balance check runs on a trial balance whose      *)
(* Debit total and Credit total (over the rows of the report, all tagged   *)
(* values being numbers) differ by more than 0.01, it appends exactly one  *)
(* adjustment: account_name 'Trial Balance Adjustment', type 'correction', *)
(* original_amount = the difference, adjusted_amount = 0,                  *)
(* adjustment_amount = -difference.                                        *)
C1_TrialBalanceCorrection ==
    [][(pc = "validate_trial_balance" /\ HasTotals(trial_balance)
            /\ Imbalance(trial_balance) > 1)
       => /\ pc' = "verify_balance_sheet_totals"
          /\ Appended(adjustments, adjustments',
                      <<Expect("Trial Balance Adjustment", Imbalance(trial_balance),
                               0, -Imbalance(trial_balance), "correction")>>)]_vars

(* Scenario B: debits 100500.00, credits 100000.00, delta -500.00 *)
C1_Witness ==
    /\ pc = "verify_balance_sheet_totals"
    /\ trial_balance = ScenarioB
    /\ Len(adjustments) = 1
    /\ adjustments[1].account_name = "Trial Balance Adjustment"
    /\ adjustments[1].adjustment_amount = -50000
    /\ reconciliation_checks["trial_balance_difference"] = 50000

(* C2: whenever the trial-balance check runs on a trial balance that has   *)
(* rows (all tagged values being numbers), it records the metric           *)
(* 'trial_balance_difference' = |debits - credits|, and when that          *)
(* difference is at most 0.01 it appends no adjustment.                    *)
C2_TrialBalanceMetric ==
    [][(pc = "validate_trial_balance" /\ HasTotals(trial_balance))
       => /\ pc' = "verify_balance_sheet_totals"
          /\ Has(reconciliation_checks', "trial_balance_difference")
          /\ reconciliation_checks'["trial_balance_difference"] = Imbalance(trial_balance)
          /\ Imbalance(trial_balance) <= 1 => adjustments' = adjustments]_vars

(* Scenario A: debits 100000.00, credits 100000.00 *)
C2_Witness ==
    /\ pc = "verify_balance_sheet_totals"
    /\ trial_balance = ScenarioA
    /\ reconciliation_checks = [trial_balance_difference |-> 0]
    /\ adjustments = <<>>

(* C3: whenever the account-balance check runs, it appends, in the order   *)
(* of the chart of accounts, one 'correction' adjustment for every entry   *)
(* whose type is Accounts Receivable, Cash or Inventory and whose balance  *)
(* B is negative, with original_amount = B, adjusted_amount = |B| and      *)
(* adjustment_amount = 2*|B|, and nothing for any other entry.             *)
C3_Entries(coa) ==
    IF Has(coa, "QueryResponse") /\ Has(coa.QueryResponse, "Account")
    THEN coa.QueryResponse.Account ELSE <<>>

C3_Negative(entry) ==
    /\ Has(entry, "AccountType") /\ Has(entry, "CurrentBalance")
    /\ entry.AccountType \in {"Accounts Receivable", "Cash", "Inventory"}
    /\ entry.CurrentBalance < 0

C3_Expected(coa) ==
    LET flagged == SelectSeq(C3_Entries(coa), C3_Negative)
    IN  [i \in 1..Len(flagged) |->
            Expect(flagged[i].Name, flagged[i].CurrentBalance,
                   -flagged[i].CurrentBalance, -2 * flagged[i].CurrentBalance,
                   "correction")]

C3_NegativeBalanceCorrection ==
    [][pc = "check_account_balances"
       => /\ pc' = "reconcile_bank_accounts"
          /\ Appended(adjustments, adjustments', C3_Expected(chart_of_accounts))]_vars

(* Scenario C: Petty Cash, Cash, -200.00 *)
C3_Witness ==
    /\ pc = "reconcile_bank_accounts"
    /\ chart_of_accounts = ScenarioC
    /\ Len(adjustments) = 1
    /\ Core(adjustments[1]) = Expect("Petty Cash", -20000, 20000, 40000, "correction")

(* C4: whenever the bank check runs on a bank-accounts report, it appends, *)
(* in the order of the report, exactly one 'info' adjustment for every     *)
(* account whose |current balance| exceeds 1,000,000, with adjusted_amount *)
(* = original_amount = the balance and adjustment_amount = 0, and nothing  *)
(* for an account with |current balance| <= 1,000,000.                     *)
C4_Entries(bank) ==
    IF Truthy(bank) /\ Has(bank, "QueryResponse") /\ Has(bank.QueryResponse, "Account")
    THEN bank.QueryResponse.Account ELSE <<>>

C4_Large(entry) ==
    /\ Has(entry, "CurrentBalance")
    /\ \/ entry.CurrentBalance > 1000000 * 100
       \/ entry.CurrentBalance < -(1000000 * 100)

C4_Expected(bank) ==
    LET flagged == SelectSeq(C4_Entries(bank), C4_Large)
    IN  [i \in 1..Len(flagged) |->
            Expect(flagged[i].Name, flagged[i].CurrentBalance,
                   flagged[i].CurrentBalance, 0, "info")]

C4_LargeBankBalances ==
    [][pc = "reconcile_bank_accounts"
       => /\ pc' = "verify_open_items"
          /\ Appended(adjustments, adjustments', C4_Expected(bank_accounts))]_vars

(* One account at exactly -1,000,000 (not flagged) before one below it *)
C4_Witness ==
    /\ pc = "verify_open_items"
    /\ C4_Entries(bank_accounts) =
           <<BankAcct("Savings", -BankLimit), BankAcct("Savings", -BankLimit - 1)>>
    /\ Len(adjustments) = 1
    /\ Core(adjustments[1]) =
           Expect("Savings", -BankLimit - 1, -BankLimit - 1, 0, "info")

(* C5: whenever the open-items check runs, it appends nothing when the     *)
(* total of open receivables is at most 500,000 and exactly one 'info'     *)
(* adjustment with adjustment_amount = 0 when it is more, whatever the     *)
(* total of open payables.                                                 *)
C5_Total(report, entity) ==
    IF Truthy(report) /\ Has(report, "QueryResponse")
          /\ Has(report.QueryResponse, entity)
    THEN LET items == SelectSeq(report.QueryResponse[entity],
                                LAMBDA item : Has(item, "Balance"))
         IN  SumSeq([i \in 1..Len(items) |-> items[i].Balance])
    ELSE 0

C5_OpenItems ==
    [][pc = "verify_open_items"
       => /\ pc' = "validate_retained_earnings"
          /\ LET total_ar == C5_Total(open_ar, "Customer")
             IN  IF total_ar > 500000 * 100
                 THEN Appended(adjustments, adjustments',
                               <<Expect("Accounts Receivable", total_ar, total_ar,
                                        0, "info")>>)
                 ELSE adjustments' = adjustments]_vars

(* Receivables of 500,000.01 are flagged once; payables of 1,500,000 are not *)
C5_Witness ==
    /\ pc = "validate_retained_earnings"
    /\ C5_Total(open_ar, "Customer") = 500000 * 100 + 1
    /\ C5_Total(open_ap, "Vendor") = 3 * (500000 * 100)
    /\ Len(adjustments) = 1
    /\ adjustments[1].adjustment_type = "info"
    /\ adjustments[1].adjustment_amount = 0

(* C6: when any of the three mandatory reports is null after the fetch,    *)
(* reconcile() ends with an error (the "Failed to retrieve" Exception when *)
(* the source answered all six fetches), returns no result, writes nothing *)
(* to the store and runs no check.                                         *)
C6_MandatoryNull ==
    reports.trial_balance = None \/ reports.balance_sheet = None
        \/ reports.chart_of_accounts = None

C6_MissingMandatoryReport ==
    [][(pc = "idle" /\ calls' = calls + 1 /\ C6_MandatoryNull)
       => /\ pc' = "idle"
          /\ outcome' \in {"Exception", "AttributeError"}
          /\ qbo_api = FullReportSource => outcome' = "Exception"
          /\ UNCHANGED <<results, db_snapshots, db_adjustments, adjustments,
                         reconciliation_checks>>]_vars

(* Scenario E: only the chart of accounts is null *)
C6_Witness ==
    /\ reports.chart_of_accounts = None
    /\ reports.trial_balance # None /\ reports.balance_sheet # None
    /\ calls = 1 /\ pc = "idle" /\ outcome = "Exception"
    /\ results = <<>> /\ db_snapshots = <<>> /\ db_adjustments = <<>>
    /\ adjustments = <<>> /\ reconciliation_checks = NoKeys

(* C7, as the code has it: with the three mandatory reports present and   *)
(* well formed and the source answering all six fetches, null optional     *)
(* reports make nothing fail -- the fetch goes on to the checks, the bank  *)
(* and open-items checks do not raise, and the call ends by returning a    *)
(* result unless a commit to the store fails.  The bank check appends      *)
(* nothing for a null bank report and the open-items check nothing for a   *)
(* null receivables report; with only the payables report null the         *)
(* open-items check still flags receivables above 500,000.                 *)
C7_SomeOptionalNull == open_ar = None \/ open_ap = None \/ bank_accounts = None

C7_ReceivablesFlag(adj_before, adj_after, ar) ==
    IF C5_Total(ar, "Customer") > 500000 * 100
    THEN Appended(adj_before, adj_after,
                  <<Expect("Accounts Receivable", C5_Total(ar, "Customer"),
                           C5_Total(ar, "Customer"), 0, "info")>>)
    ELSE adj_after = adj_before

C8_Balanced(total_assets, total_liabilities, total_equity) ==
    LET d == total_assets - (total_liabilities + total_equity)
    IN  d < 1 /\ -d < 1

C8_BalancedFlag ==
    /\ \A i \in 1..Len(results) :
          LET r == results[i]
              summary == r.summary_balance_sheet
          IN  /\ summary =
                     _generate_summary_balance_sheet(<<>>, NoKeys,
                                                     reports.balance_sheet).value
              /\ r.is_balanced <=> C8_Balanced(summary.total_assets,
                                               summary.total_liabilities,
                                               summary.total_equity)
    /\ \A i \in 1..Len(db_snapshots) :
          LET snapshot == db_snapshots[i]
          IN  snapshot.is_balanced <=> C8_Balanced(snapshot.total_assets,
                                                   snapshot.total_liabilities,
                                                   snapshot.total_equity)
    /\ pc = "save_adjustments"
          => /\ reconciliation_log.total_assets = summary_bs.total_assets
             /\ reconciliation_log.total_liabilities = summary_bs.total_liabilities
             /\ reconciliation_log.total_equity = summary_bs.total_equity

(* Scenario D: assets 500000, liabilities 200000, equity 300000 *)
C8_Witness ==
    /\ Len(results) = 1
    /\ reports.balance_sheet = ScenarioD
    /\ results[1].summary_balance_sheet.total_assets = 500000 * 100
    /\ results[1].summary_balance_sheet.total_liabilities = 200000 * 100
    /\ results[1].summary_balance_sheet.total_equity = 300000 * 100
    /\ results[1].is_balanced
    /\ db_snapshots[1].is_balanced

(* C9: the summary builder depends on the balance-sheet payload alone: the *)
(* results of any two calls on the same payload carry the same summary,    *)
(* whatever the reconciler's adjustment list and metrics were when it was  *)
(* built (same instance or a new one), and building it changes neither the *)
(* payload nor the adjustment list nor the metrics map.                    *)
C9_SameSummary ==
    \A i, j \in 1..Len(results) :
        results[i].summary_balance_sheet = results[j].summary_balance_sheet

C9_SummaryBuilderPure ==
    [][/\ C9_SameSummary'
       /\ (pc = "generate_summary" /\ pc' = "log_snapshot")
          => UNCHANGED <<balance_sheet, reports, adjustments,
                         reconciliation_checks>>]_vars

(* Two results of one reconciler: the second summary was built with the    *)
(* adjustments of both calls in the list                                   *)
C9_Witness ==
    /\ Len(results) = 2
    /\ results[1].live /\ results[2].live
    /\ Len(adjustments) = 2
    /\ Has(results[1].summary_balance_sheet, "total_assets")
    /\ results[1].summary_balance_sheet = results[2].summary_balance_sheet

OneRun ==
    LET s1 == _validate_trial_balance(<<>>, NoKeys, reports.trial_balance)
        s2 == _verify_balance_sheet_totals(s1.adjustments, s1.reconciliation_checks,
                                           reports.balance_sheet)
        s3 == _check_account_balances(s2.adjustments, s2.reconciliation_checks,
                                      reports.chart_of_accounts)
        s4 == _reconcile_bank_accounts(s3.adjustments, s3.reconciliation_checks,
                                       reports.bank_accounts)
        s5 == _verify_open_items(s4.adjustments, s4.reconciliation_checks,
                                 reports.open_ar, reports.open_ap)
    IN  _validate_retained_earnings(s5.adjustments, s5.reconciliation_checks,
                                    reports.balance_sheet)

(* C11: a returned result is terminal.  No step taken after reconcile()    *)
(* has returned a result -- a further reconcile() call on the same         *)
(* reconciler included -- changes that result's adjustment list or its     *)
(* check-metrics map, and the adjustment list of every result holds only   *)
(* the adjustments that the checks of its own run appended.                *)
C11_ResultTerminal ==
    [][/\ \A i \in 1..Len(results) :
             /\ results'[i].adjustments = results[i].adjustments
             /\ results'[i].reconciliation_checks = results[i].reconciliation_checks
       /\ \A i \in 1..Len(results') :
             results'[i].adjustments = OneRun.adjustments]_vars

(* A reconciler used for two calls on a trial balance that is out of       *)
(* balance: the first result now lists the adjustments of both runs        *)
C11_Witness ==
    /\ Len(results) = 2
    /\ results[1].live /\ results[2].live
    /\ Len(OneRun.adjustments) = 1
    /\ Len(results[1].adjustments) = 2
    /\ results[2].adjustments = results[1].adjustments

(* The second-level rows of a balance sheet that carry more than one       *)
(* column, in document order, with their label and last column             *)
GroupRows(bs) ==
    LET sections == SelectSeq(bs.Rows, LAMBDA row : Has(row, "Rows"))
        sub_rows == Flatten([i \in 1..Len(sections) |-> sections[i].Rows])
    IN  SelectSeq(sub_rows, LAMBDA sub_row :
                      Has(sub_row, "ColData") /\ Len(sub_row.ColData) > 1)

GroupLabel(sub_row) == IF Has(sub_row, "group") THEN sub_row.group ELSE <<>>

GroupValue(sub_row) ==
    LET col == sub_row.ColData[Len(sub_row.ColData)]
    IN  IF Has(col, "value") THEN col.value ELSE Val(0)

Contains(label, keyword) == In(keyword, Upper(label))

(* A balance sheet with rows whose group rows all end in a number *)
HasGroupValues(bs) ==
    /\ Has(bs, "Rows")
    /\ \A i \in 1..Len(GroupRows(bs)) : IsNumber(GroupValue(GroupRows(bs)[i]))

(* C12: whenever the balance-sheet totals check runs on a balance sheet    *)
(* with rows (the last column of every second-level row with more than one *)
(* column being a number), it classifies each such row by its label,       *)
(* ignoring case: ASSET first, else LIABILITY, else EQUITY; the total of a *)
(* category is the last column's value of the last row classified into it  *)
(* (0 when there is none), not a sum; it records the metric                *)
(* 'balance_sheet_difference' = |assets - (liabilities + equity)|, and it  *)
(* appends exactly one 'correction' adjustment, original_amount = the      *)
(* difference, adjusted_amount = 0, adjustment_amount = -difference, when  *)
(* the difference exceeds 0.01, and none otherwise.                        *)
C12_Category(label) ==
    IF Contains(label, ASSET) THEN "assets"
    ELSE IF Contains(label, LIABILITY) THEN "liabilities"
    ELSE IF Contains(label, EQUITY) THEN "equity"
    ELSE "none"

C12_Total(bs, category) ==
    LET matching == SelectSeq(GroupRows(bs), LAMBDA sub_row :
                                  C12_Category(GroupLabel(sub_row)) = category)
    IN  IF matching = <<>> THEN 0 ELSE GroupValue(matching[Len(matching)]).f

C12_Difference(bs) ==
    LET d == C12_Total(bs, "assets")
                 - (C12_Total(bs, "liabilities") + C12_Total(bs, "equity"))
    IN  IF d < 0 THEN -d ELSE d

C12_BalanceSheetTotals ==
    [][(pc = "verify_balance_sheet_totals" /\ HasGroupValues(balance_sheet))
       => /\ pc' = "check_account_balances"
          /\ Has(reconciliation_checks', "balance_sheet_difference")
          /\ reconciliation_checks'["balance_sheet_difference"]
                 = C12_Difference(balance_sheet)
          /\ IF C12_Difference(balance_sheet) > 1
             THEN Appended(adjustments, adjustments',
                           <<Expect("Balance Sheet Adjustment",
                                    C12_Difference(balance_sheet), 0,
                                    -C12_Difference(balance_sheet), "correction")>>)
             ELSE adjustments' = adjustments]_vars

(* Current assets 5.00 before fixed assets 3.00 and nothing else: assets   *)
(* count as 3.00 (the last row), not 8.00, and the correction is -3.00     *)
C12_Witness ==
    /\ pc = "check_account_balances"
    /\ Has(balance_sheet, "Rows")
    /\ GroupRows(balance_sheet) =
           <<BSRow(CurrentAssetsLabel, 500), BSRow(FixedAssetsLabel, 300)>>
    /\ reconciliation_checks["balance_sheet_difference"] = 300
    /\ Len(adjustments) = 1
    /\ Core(adjustments[1]) = Expect("Balance Sheet Adjustment", 300, 0, -300, "correction")

(* C13: whenever the retained-earnings check runs on a balance sheet with  *)
(* rows, the value it uses is the last column's value of the first         *)
(* second-level row (with more than one column), in document order over    *)
(* all top-level sections, whose label contains RETAINED, whatever matches *)
(* follow it; it appends exactly one 'info' adjustment with                *)
(* original_amount = adjusted_amount = that value and adjustment_amount =  *)
(* 0 when the value is negative, and none when it is zero or positive or   *)
(* no label matches.                                                       *)
C13_Matches(bs) ==
    SelectSeq(GroupRows(bs), LAMBDA sub_row : Contains(GroupLabel(sub_row), RETAINED))

C13_FirstValue(bs) ==
    IF C13_Matches(bs) = <<>> THEN 0 ELSE GroupValue(C13_Matches(bs)[1]).f

C13_FirstRetained ==
    [][(pc = "validate_retained_earnings" /\ HasGroupValues(balance_sheet))
       => /\ pc' = "generate_summary"
          /\ IF C13_FirstValue(balance_sheet) < 0
             THEN Appended(adjustments, adjustments',
                           <<Expect("Retained Earnings",
                                    C13_FirstValue(balance_sheet),
                                    C13_FirstValue(balance_sheet), 0, "info")>>)
             ELSE adjustments' = adjustments]_vars

(* Retained earnings of 1.00 in the first section, retained equity of      *)
(* -0.01 in the next one: the check has flagged the later, negative value  *)
C13_Witness ==
    /\ pc = "generate_summary"
    /\ balance_sheet = BalanceSheetDict(<<BSRow(RetainedEarningsLabel, 100)>>,
                                        <<BSRow(RetainedEquityLabel, -1)>>)
    /\ Len(adjustments) = 1
    /\ Core(adjustments[1]) = Expect("Retained Earnings", -1, -1, 0, "info")

(* The buckets of the summary, and the value a summary holds in one *)
Buckets ==
    {<<"assets", "current">>, <<"assets", "fixed">>, <<"assets", "other">>,
     <<"liabilities", "current">>, <<"liabilities", "long_term">>,
     <<"equity", "owners_equity">>, <<"equity", "retained_earnings">>,
     <<"equity", "net_income">>}

BucketValue(summary, bucket) == summary[bucket[1]][bucket[2]]

(* The bucket of a label, <<>> when it has none *)
BucketOf(label) ==
    IF Contains(label, ASSET)
    THEN IF Contains(label, CURRENT) THEN <<"assets", "current">>
         ELSE IF Contains(label, FIXED) \/ Contains(label, PROPERTY)
         THEN <<"assets", "fixed">>
         ELSE <<"assets", "other">>
    ELSE IF Contains(label, LIABILITY)
    THEN IF Contains(label, CURRENT) THEN <<"liabilities", "current">>
         ELSE <<"liabilities", "long_term">>
    ELSE IF Contains(label, EQUITY)
    THEN IF Contains(label, RETAINED) THEN <<"equity", "retained_earnings">>
         ELSE <<"equity", "owners_equity">>
    ELSE <<>>

(* The values of the rows of a balance sheet that go to a bucket, in       *)
(* document order                                                          *)
BucketRows(bs, bucket) ==
    LET rows == SelectSeq(GroupRows(bs), LAMBDA sub_row :
                              BucketOf(GroupLabel(sub_row)) = bucket)
    IN  [i \in 1..Len(rows) |-> GroupValue(rows[i]).f]

(* C14: whenever the summary is built from a balance sheet with rows, each *)
(* second-level row with at least two columns goes to exactly one bucket,  *)
(* chosen by its label, ignoring case: ASSET -> assets.current if CURRENT, *)
(* else assets.fixed if FIXED or PROPERTY, else assets.other; otherwise    *)
(* LIABILITY -> liabilities.current if CURRENT, else liabilities.long_term;*)
(* otherwise EQUITY -> equity.retained_earnings if RETAINED, else          *)
(* equity.owners_equity; otherwise no bucket.  So every bucket of the      *)
(* summary holds the value of one of the rows chosen for it, and a bucket  *)
(* that no row is chosen for is left at 0.                                 *)
C14_BucketClassification ==
    [][(pc = "generate_summary" /\ HasGroupValues(balance_sheet))
       => /\ pc' = "log_snapshot"
          /\ \A bucket \in Buckets :
                LET values == BucketRows(balance_sheet, bucket)
                IN  IF values = <<>>
                    THEN BucketValue(summary_bs', bucket) = 0
                    ELSE \E i \in 1..Len(values) :
                            BucketValue(summary_bs', bucket) = values[i]]_vars

(* A balance sheet with a row for each of the seven buckets *)
C14_Witness ==
    /\ pc = "log_snapshot"
    /\ Has(summary_bs, "assets")
    /\ summary_bs.assets = [current |-> 500, fixed |-> 300, other |-> 800]
    /\ summary_bs.liabilities = [current |-> 799, long_term |-> 800]
    /\ summary_bs.equity =
           [owners_equity |-> 300, retained_earnings |-> -1, net_income |-> 0]
    /\ Len(GroupRows(balance_sheet)) = 7

(* C15: whenever the summary is built from a balance sheet with rows,      *)
(* every bucket holds the value of the last row, in document order, that   *)
(* is classified into it -- not the sum of the rows classified into it --  *)
(* and a bucket no row is classified into holds 0.                         *)
C15_LastRowWins ==
    [][(pc = "generate_summary" /\ HasGroupValues(balance_sheet))
       => /\ pc' = "log_snapshot"
          /\ \A bucket \in Buckets :
                LET values == BucketRows(balance_sheet, bucket)
                IN  BucketValue(summary_bs', bucket) =
                        IF values = <<>> THEN 0 ELSE values[Len(values)]]_vars

(* 'Total Assets' 8.00 in one section and 'Asset Retirement Liability'     *)
(* 0.40 in the next: assets.other is 0.40, not 8.40                        *)
C15_Witness ==
    /\ pc = "log_snapshot"
    /\ Has(balance_sheet, "Rows")
    /\ BucketRows(balance_sheet, <<"assets", "other">>) = <<800, 40>>
    /\ summary_bs.assets.other = 40
    /\ summary_bs.total_assets = 40

(* C16: for every balance sheet that has rows, the summary built from it   *)
(* (while reconcile() holds it, and in every returned result) satisfies    *)
(* total_assets = assets.current + assets.fixed + assets.other,            *)
(* total_liabilities = liabilities.current + liabilities.long_term and     *)
(* total_equity = equity.owners_equity + equity.retained_earnings, and     *)
(* equity.net_income is 0 and no part of total_equity.                     *)
C16_Totals(summary) ==
    /\ DOMAIN summary = {"assets", "liabilities", "equity", "total_assets",
                         "total_liabilities", "total_equity"}
    /\ summary.total_assets =
           summary.assets.current + summary.assets.fixed + summary.assets.other
    /\ summary.total_liabilities =
           summary.liabilities.current + summary.liabilities.long_term
    /\ summary.total_equity =
           summary.equity.owners_equity + summary.equity.retained_earnings
    /\ summary.equity.net_income = 0

C16_DerivedTotals ==
    /\ (pc \in {"log_snapshot", "save_adjustments"} /\ Has(balance_sheet, "Rows"))
           => C16_Totals(summary_bs)
    /\ \A i \in 1..Len(results) :
           Has(reports.balance_sheet, "Rows")
               => C16_Totals(results[i].summary_balance_sheet)

(* A returned summary with every bucket filled: assets 5.00 + 3.00 + 8.00, *)
(* liabilities 7.99 + 8.00, equity 3.00 - 0.01                             *)
C16_Witness ==
    /\ Len(results) = 1
    /\ Len(GroupRows(reports.balance_sheet)) = 7
    /\ results[1].summary_balance_sheet.total_assets = 1600
    /\ results[1].summary_balance_sheet.total_liabilities = 1599
    /\ results[1].summary_balance_sheet.total_equity = 299
    /\ results[1].summary_balance_sheet.equity.net_income = 0

(* C17: within one reconcile() run the six checks run in the order trial   *)
(* balance, balance-sheet totals, account balances, bank accounts, open    *)
(* items, retained earnings -- a check is followed by the next one unless  *)
(* it raises -- and each check only appends its own adjustments after all  *)
(* that the list holds, the account-balance and bank checks in the order   *)
(* of the accounts in their reports; so when the checks of a call on a new *)
(* reconciler are done, the adjustments stand in the order of the checks.  *)
C17_Steps ==
    <<"validate_trial_balance", "verify_balance_sheet_totals",
      "check_account_balances", "reconcile_bank_accounts", "verify_open_items",
      "validate_retained_earnings", "generate_summary">>

C17_CheckOf(adjustment) ==
    CASE adjustment.reason[1] = "Trial balance out of balance by $" -> 1
      [] adjustment.reason[1] = "Balance sheet out of balance by $" -> 2
      [] adjustment.reason[1] = "Negative balance in " -> 3
      [] adjustment.reason[1] = "Large bank balance requires manual review: $" -> 4
      [] adjustment.reason[1] = "High A/R balance requires review: $" -> 5
      [] adjustment.reason[1] = "Negative retained earnings: $" -> 6

C17_CheckOrder ==
    [][/\ pc = "idle" => pc' \in {"idle", C17_Steps[1]}
       /\ \A k \in 1..6 :
             pc = C17_Steps[k]
                 => /\ pc' \in {C17_Steps[k + 1], "idle"}
                    /\ pc' = C17_Steps[k + 1]
                           => /\ Len(adjustments') >= Len(adjustments)
                              /\ SubSeq(adjustments', 1, Len(adjustments)) = adjustments
                              /\ \A i \in (Len(adjustments) + 1)..Len(adjustments') :
                                     C17_CheckOf(adjustments'[i]) = k
       /\ (pc = C17_Steps[3] /\ pc' = C17_Steps[4])
             => Appended(adjustments, adjustments', C3_Expected(chart_of_accounts))
       /\ (pc = C17_Steps[4] /\ pc' = C17_Steps[5])
             => Appended(adjustments, adjustments', C4_Expected(bank_accounts))
       /\ (pc = C17_Steps[6] /\ pc' = C17_Steps[7] /\ calls = 1)
             => \A i, j \in 1..Len(adjustments') :
                    i < j => C17_CheckOf(adjustments'[i]) <= C17_CheckOf(adjustments'[j])]_vars

(* Every check has appended: one, one, two (in chart order), two (in bank  *)
(* report order), one and one adjustment                                   *)
C17_Witness ==
    /\ pc = "generate_summary" /\ calls = 1
    /\ Len(adjustments) = 8
    /\ [i \in 1..8 |-> C17_CheckOf(adjustments[i])] = <<1, 2, 3, 3, 4, 4, 5, 6>>
    /\ [i \in 1..8 |-> adjustments[i].account_name] =
           <<"Trial Balance Adjustment", "Balance Sheet Adjustment", "Stock",
             "Debtors", "Savings", "Checking", "Accounts Receivable",
             "Retained Earnings">>

(* C18: a failure inside one of the six checks does not keep the others    *)
(* from running: whatever a check does, the run goes on to the next check  *)
(* (after the last one, to the summary), and no reconcile() call ends with *)
(* the exception of a check.                                               *)
C18_ExceptionIsolation ==
    [][/\ \A k \in 1..6 : pc = C17_Steps[k] => pc' = C17_Steps[k + 1]
       /\ outcome' # "ValueError"]_vars

(* A trial balance whose Debit column float() cannot parse: the call has   *)
(* ended with ValueError in the first check, and with it the run           *)
C18_Witness ==
    /\ pc = "idle" /\ calls = 1 /\ outcome = "ValueError"
    /\ Has(reports.trial_balance, "Rows")
    /\ TrialBalanceTotals(reports.trial_balance).raised = "ValueError"
    /\ HasGroupValues(reports.balance_sheet)
    /\ adjustments = <<>> /\ reconciliation_checks = NoKeys
    /\ results = <<>> /\ db_snapshots = <<>>

(* A mandatory report that is present but lacks substructure: no rows, a   *)
(* row without columns, a response without entries                         *)
LacksSubstructure(r) ==
    \/ ~Has(r.trial_balance, "Rows")
    \/ \E i \in 1..Len(r.trial_balance.Rows) : ~Has(r.trial_balance.Rows[i], "ColData")
    \/ ~Has(r.balance_sheet, "Rows")
    \/ \E i \in 1..Len(r.balance_sheet.Rows) :
          \/ ~Has(r.balance_sheet.Rows[i], "Rows")
          \/ \E j \in 1..Len(r.balance_sheet.Rows[i].Rows) :
                ~Has(r.balance_sheet.Rows[i].Rows[j], "ColData")
    \/ ~Has(r.chart_of_accounts, "QueryResponse")
    \/ ~Has(r.chart_of_accounts.QueryResponse, "Account")
    \/ r.chart_of_accounts.QueryResponse.Account = <<>>

(* C19: when the three mandatory reports are present (on a source that     *)
(* answers all six fetches, with no value that float() cannot parse) and   *)
(* one of them lacks substructure, reconcile() does not fail: the fetch    *)
(* goes on to the checks, the summary that is built carries the three      *)
(* totals -- all zero when the balance sheet has no rows -- and the call   *)
(* ends by returning a result (with a summary and a balanced flag) unless  *)
(* a commit to the store fails.                                            *)
C19_Case ==
    /\ qbo_api = FullReportSource
    /\ Truthy(reports.trial_balance) /\ Truthy(reports.balance_sheet)
    /\ Truthy(reports.chart_of_accounts)
    /\ Has(reports.trial_balance, "Rows") => HasTotals(reports.trial_balance)
    /\ Has(reports.balance_sheet, "Rows") => HasGroupValues(reports.balance_sheet)
    /\ LacksSubstructure(reports)

C19_MissingSubstructure ==
    [][C19_Case
       => /\ (pc = "idle" /\ calls' = calls + 1) => pc' = "validate_trial_balance"
          /\ pc = "generate_summary"
                => /\ pc' = "log_snapshot"
                   /\ Has(summary_bs', "total_assets")
                   /\ ~Has(balance_sheet, "Rows")
                         => /\ summary_bs'.total_assets = 0
                            /\ summary_bs'.total_liabilities = 0
                            /\ summary_bs'.total_equity = 0
          /\ (pc # "idle" /\ pc' = "idle")
                => /\ outcome' \in {"returned", "SQLAlchemyError"}
                   /\ outcome' = "returned"
                         => /\ Has(Last(results').summary_balance_sheet, "total_assets")
                            /\ Last(results').is_balanced \in BOOLEAN]_vars

(* A balance sheet with a header and no rows: all six checks ran, the      *)
(* summary was the empty dict, and the call ended with KeyError            *)
C19_Witness ==
    /\ pc = "idle" /\ calls = 1 /\ outcome = "KeyError"
    /\ C19_Case
    /\ ~Has(reports.balance_sheet, "Rows")
    /\ Has(reconciliation_checks, "total_open_ar")
    /\ results = <<>> /\ db_snapshots = <<>>

(* Every row of a row tree, the rows nested under a row after it *)
RECURSIVE DeepRows(_)
DeepRows(rows) ==
    IF rows = <<>> THEN <<>>
    ELSE <<Head(rows)>>
         \o (IF Has(Head(rows), "Rows") THEN DeepRows(Head(rows).Rows) ELSE <<>>)
         \o DeepRows(Tail(rows))

(* C20: whenever the trial-balance check runs on a trial balance with rows *)
(* (all tagged values being numbers), its debit and credit totals take in  *)
(* the Debit-tagged and Credit-tagged values of every row of the row tree, *)
(* the rows nested under other rows included: the recorded                 *)
(* 'trial_balance_difference' is |debits - credits| over the whole tree,   *)
(* and the correction is appended exactly when that exceeds 0.01.          *)
C20_Tree(tb) == [Rows |-> DeepRows(tb.Rows)]

C20_Imbalance(tb) == Imbalance(C20_Tree(tb))

C20_NestedRows ==
    [][(pc = "validate_trial_balance" /\ Has(trial_balance, "Rows")
            /\ HasTotals(C20_Tree(trial_balance)))
       => /\ pc' = "verify_balance_sheet_totals"
          /\ Has(reconciliation_checks', "trial_balance_difference")
          /\ reconciliation_checks'["trial_balance_difference"]
                 = C20_Imbalance(trial_balance)
          /\ IF C20_Imbalance(trial_balance) > 1
             THEN Appended(adjustments, adjustments',
                           <<Expect("Trial Balance Adjustment",
                                    C20_Imbalance(trial_balance), 0,
                                    -C20_Imbalance(trial_balance), "correction")>>)
             ELSE adjustments' = adjustments]_vars

(* A section row with a debit of 0.05 nested under it, then a credit of    *)
(* 0.03: the check has counted the credit alone                            *)
C20_Witness ==
    /\ pc = "verify_balance_sheet_totals" /\ calls = 1
    /\ Has(trial_balance, "Rows")
    /\ trial_balance.Rows = <<[type |-> "Section", Rows |-> <<TBRow(5, 0)>>], TBRow(0, 3)>>
    /\ TaggedTotal(C20_Tree(trial_balance), "Debit") = 5
    /\ reconciliation_checks = [trial_balance_difference |-> 3]
    /\ Len(adjustments) = 1
    /\ adjustments[1].original_amount = 3

(* C21: whenever the open-items check runs, it records in the metrics map  *)
(* 'total_open_ar' = the sum of the balances of the customers of the open  *)
(* receivables report and 'total_open_ap' = the sum of the balances of the *)
(* vendors of the open payables report, each 0 when its report is null or  *)
(* has no entries, and leaves the other metrics as they are.               *)
C21_OpenItemMetrics ==
    [][pc = "verify_open_items"
       => /\ pc' = "validate_retained_earnings"
          /\ DOMAIN reconciliation_checks' =
                 DOMAIN reconciliation_checks \cup {"total_open_ar", "total_open_ap"}
          /\ reconciliation_checks'["total_open_ar"] = C5_Total(open_ar, "Customer")
          /\ reconciliation_checks'["total_open_ap"] = C5_Total(open_ap, "Vendor")
          /\ \A k \in DOMAIN reconciliation_checks \ {"total_open_ar", "total_open_ap"} :
                 reconciliation_checks'[k] = reconciliation_checks[k]]_vars

(* Two customers owing 250,000.00 and 250,000.01 and a null payables       *)
(* report: 500,000.01 and 0 are recorded                                   *)
C21_Witness ==
    /\ pc = "validate_retained_earnings"
    /\ open_ap = None
    /\ Truthy(open_ar) /\ Has(open_ar, "QueryResponse")
    /\ Has(open_ar.QueryResponse, "Customer")
    /\ Len(open_ar.QueryResponse.Customer) = 2
    /\ reconciliation_checks["total_open_ar"] = 500000 * 100 + 1
    /\ reconciliation_checks["total_open_ap"] = 0

(* C22: the balanced flag follows the totals of the summary alone, not the *)
(* verdict of the balance-sheet totals check.  In the result of a first    *)
(* call the flag is true exactly when the bucket totals of the summary     *)
(* differ by less than 0.01, and the 'Balance Sheet Adjustment' is there   *)
(* exactly when the last-row totals of the check differ by more than 0.01; *)
(* on one and the same payload the two can disagree either way: current    *)
(* assets 5.00, fixed assets 3.00, liabilities 8.00 gives the correction   *)
(* and balanced = true; current assets 5.00, total assets 8.00,            *)
(* liabilities 8.00 gives no correction and balanced = false.              *)
C22_Bucket(bs, bucket) ==
    LET values == BucketRows(bs, bucket)
    IN  IF values = <<>> THEN 0 ELSE values[Len(values)]

C22_SummaryBalanced(bs) ==
    LET assets == C22_Bucket(bs, <<"assets", "current">>)
                      + C22_Bucket(bs, <<"assets", "fixed">>)
                      + C22_Bucket(bs, <<"assets", "other">>)
        liabilities == C22_Bucket(bs, <<"liabilities", "current">>)
                           + C22_Bucket(bs, <<"liabilities", "long_term">>)
        equity == C22_Bucket(bs, <<"equity", "owners_equity">>)
                      + C22_Bucket(bs, <<"equity", "retained_earnings">>)
        d == assets - (liabilities + equity)
    IN  d < 1 /\ -d < 1

C22_Corrected(adj) ==
    \E i \in 1..Len(adj) : adj[i].account_name = "Balance Sheet Adjustment"

C22_FlagIndependentOfCheck ==
    [][(pc = "save_adjustments" /\ outcome' = "returned" /\ calls = 1)
       => LET r == results'[Len(results')]
          IN  /\ r.is_balanced <=> C22_SummaryBalanced(balance_sheet)
              /\ C22_Corrected(r.adjustments) <=> C12_Difference(balance_sheet) > 1
              /\ balance_sheet = AssetsSplit
                     => (C22_Corrected(r.adjustments) /\ r.is_balanced)
              /\ balance_sheet = AssetsTwice
                     => (~C22_Corrected(r.adjustments) /\ ~r.is_balanced)]_vars

(* The result for current assets 5.00, fixed assets 3.00, liabilities 8.00 *)
(* carries the correction of 5.00 and balanced = true                      *)
C22_Witness ==
    /\ Len(results) = 1 /\ calls = 1
    /\ reports.balance_sheet = AssetsSplit
    /\ results[1].is_balanced
    /\ Len(results[1].adjustments) = 1
    /\ Core(results[1].adjustments[1]) =
           Expect("Balance Sheet Adjustment", 500, 0, -500, "correction")
    /\ results[1].reconciliation_checks["balance_sheet_difference"] = 500

(* C23: every fetch that reconcile() invokes on its report source is an    *)
(* operation of QuickBooksAPI, so a reconcile() call on a QuickBooksAPI    *)
(* whose three mandatory reports are present goes on to the six checks     *)
(* (and from there can return a result).                                   *)
C23_Fetches ==
    {"get_trial_balance", "get_balance_sheet_report", "get_chart_of_accounts",
     "get_open_ar", "get_open_ap", "get_bank_accounts"}

C23_QuickBooksAPIFetches ==
    [][(qbo_api = QuickBooksAPI /\ pc = "idle" /\ calls' = calls + 1
            /\ Truthy(reports.trial_balance) /\ Truthy(reports.balance_sheet)
            /\ Truthy(reports.chart_of_accounts))
       => /\ C23_Fetches \subseteq qbo_api
          /\ pc' = "validate_trial_balance"
          /\ outcome' = "running"]_vars

(* A call on a QuickBooksAPI with all reports in order has ended with      *)
(* AttributeError, before any check                                        *)
C23_Witness ==
    /\ qbo_api = QuickBooksAPI
    /\ reports = BaseReports
    /\ pc = "idle" /\ calls = 1 /\ outcome = "AttributeError"
    /\ adjustments = <<>> /\ reconciliation_checks = NoKeys
    /\ results = <<>> /\ db_snapshots = <<>>

(* C24: whenever no reconcile() call is under way -- the last one has      *)
(* returned, or has failed at any step, the saving of the adjustments      *)
(* included -- every snapshot in the store has exactly adjustments_count   *)
(* adjustment rows linked to its id.                                       *)
C24_Linked(snapshot) ==
    {i \in 1..Len(db_adjustments) :
         db_adjustments[i].reconciliation_log_id = snapshot.id}

C24_SnapshotsHaveAdjustments ==
    pc = "idle"
        => \A k \in 1..Len(db_snapshots) :
               Cardinality(C24_Linked(db_snapshots[k]))
                   = db_snapshots[k].adjustments_count

(* The commit of the adjustment rows has failed after the commit of the    *)
(* snapshot: a snapshot counting one adjustment, and no adjustment row     *)
C24_Witness ==
    /\ pc = "idle" /\ calls = 1 /\ outcome = "SQLAlchemyError"
    /\ Len(db_snapshots) = 1
    /\ db_snapshots[1].adjustments_count = 1
    /\ Len(adjustments) = 1
    /\ db_adjustments = <<>>
    /\ results = <<>>

(* C25: every adjustment in the list satisfies adjustment_amount =         *)
(* adjusted_amount - original_amount.  An 'info' adjustment (bank, open    *)
(* items, retained earnings) has adjusted_amount = original_amount and     *)
(* adjustment_amount = 0; a trial-balance or balance-sheet correction goes *)
(* from the difference to 0 with adjustment_amount = -difference; a        *)
(* negative-balance correction goes from B < 0 to |B| with                 *)
(* adjustment_amount = 2*|B|.                                              *)
C25_Consistent(a) ==
    /\ a.adjustment_amount = a.adjusted_amount - a.original_amount
    /\ a.adjustment_type \in {"info", "correction"}
    /\ a.adjustment_type = "info" <=> C17_CheckOf(a) \in {4, 5, 6}
    /\ a.adjustment_type = "info"
           => (a.adjusted_amount = a.original_amount /\ a.adjustment_amount = 0)
    /\ C17_CheckOf(a) \in {1, 2}
           => /\ a.original_amount > 1
              /\ a.adjusted_amount = 0
              /\ a.adjustment_amount = -a.original_amount
    /\ C17_CheckOf(a) = 3
           => /\ a.original_amount < 0
              /\ a.adjusted_amount = -a.original_amount
              /\ a.adjustment_amount = 2 * a.adjusted_amount

C25_AdjustmentDeltas ==
    \A i \in 1..Len(adjustments) : C25_Consistent(adjustments[i])

(* The eight adjustments of a run in which every check appends, as they    *)
(* were returned and stored                                                *)
C25_Witness ==
    /\ pc = "idle" /\ calls = 1 /\ outcome = "returned"
    /\ reports = AllFlagged
    /\ Len(db_adjustments) = 8
    /\ [i \in 1..8 |-> adjustments[i].original_amount] =
           <<50000, 801, -5, -1, -BankLimit - 1, BankLimit + 1, OpenItemsLimit + 1, -1>>
    /\ [i \in 1..8 |-> adjustments[i].adjusted_amount] =
           <<0, 0, 5, 1, -BankLimit - 1, BankLimit + 1, OpenItemsLimit + 1, -1>>
    /\ [i \in 1..8 |-> adjustments[i].adjustment_amount] =
           <<-50000, -801, 10, 2, 0, 0, 0, 0>>

====
